---------------------------- MODULE Spec2Model ----------------------------
(***************************************************************************)
(* Tic-tac-toe on a charlieplexed LED matrix with one push button          *)
(* (src/main.c).  The module models the board/game logic (checkBoard and   *)
(* its helpers), the button gesture state machine (checkButton), the       *)
(* end-of-game animation state machine (playSequence) and the part of the  *)
(* main loop that sequences them.                                          *)
(***************************************************************************)
EXTENDS Integers, Sequences, FiniteSets, TLC

(***************************************************************************)
(* Program constants and enumerations.                                     *)
(***************************************************************************)
NUM_LED_PER_COLOR == 9

eRedLed == 0
eGreenLed == 1

eBtnUndefined == 0
eBtnShortKeyPress == 1
eBtnDoubleKeyPress == 2
eBtnLongKeyPress == 3

eGameRestart == 0
eOngoingGame == 1
eStalemate == 2
eRedPlayerWin == 3
eGreenPlayerWin == 4

Colors == {eRedLed, eGreenLed}
Cells == 0 .. (NUM_LED_PER_COLOR - 1)
ButtonEvents == {eBtnUndefined, eBtnShortKeyPress, eBtnDoubleKeyPress, eBtnLongKeyPress}
TerminalStates == {eStalemate, eRedPlayerWin, eGreenPlayerWin}

\* Winning combinations, in the order of the table (rows, columns, diagonals).
kWins ==
    << <<0, 1, 2>>, <<3, 4, 5>>, <<6, 7, 8>>,
       <<0, 3, 6>>, <<1, 4, 7>>, <<2, 5, 8>>,
       <<0, 4, 8>>, <<2, 4, 6>> >>

\* Charlieplexing: the 5 drive lines and, per cell, the (anode, cathode)
\* lines of its red LED; the green LED of a cell is wired the other way round.
NUM_LINES == 5
Lines == 0 .. (NUM_LINES - 1)
kRedPairs ==
    << <<0, 1>>, <<0, 2>>, <<0, 3>>,
       <<1, 2>>, <<1, 3>>, <<3, 4>>,
       <<2, 3>>, <<1, 4>>, <<0, 4>> >>

\* Faulty variant of getPair: the green LED is driven like the red one.
getPair_noSwap(color, cellIdx) ==
    [src |-> kRedPairs[cellIdx + 1][1], sink |-> kRedPairs[cellIdx + 1][2]]

\* getPair(color, cellIdx, &src, &sink)
getPair(color, cellIdx) ==
    LET anR == kRedPairs[cellIdx + 1][1]
        caR == kRedPairs[cellIdx + 1][2]
    IN  [src |-> IF color = eRedLed THEN anR ELSE caR,
         sink |-> IF color = eRedLed THEN caR ELSE anR]

\* The tick counter is kept as its two 16-bit halves, milis = hi * 2^16 + lo.
W16 == 2 ^ 16
Tick0 == [hi |-> 0, lo |-> 0]

\* milis += ms (delay_ms), modulo 2^32.
TickAdd(m, ms) ==
    [hi |-> (m.hi + ((m.lo + ms) \div W16)) % W16, lo |-> (m.lo + ms) % W16]

(***************************************************************************)
(* Board/game logic.  A board state bs is a record                         *)
(*   [gameBoard, cursor, currentColor]   (sBoardState_t).                  *)
(***************************************************************************)
\* Faulty variant of cellOccupied: only the red grid is consulted.
cellOccupied_redOnly(bs, idx) == bs.gameBoard[eRedLed][idx]

cellOccupied(bs, idx) ==
    bs.gameBoard[eRedLed][idx] \/ bs.gameBoard[eGreenLed][idx]

wrapInc(idx) == ((idx + 1) % NUM_LED_PER_COLOR) % 256

wrapDec(idx) == IF idx = 0 THEN NUM_LED_PER_COLOR - 1 ELSE (idx - 1) % 256

\* The scan loop of findNextFreeFrom: i is the cell examined, count the
\* number of cells already examined.  Result: [found, idx] (idx is *outIdx).
RECURSIVE findNextFreeScan(_, _, _, _)
findNextFreeScan(bs, i, dir, count) ==
    IF count >= NUM_LED_PER_COLOR
    THEN [found |-> FALSE, idx |-> 0]
    ELSE IF ~cellOccupied(bs, i)
         THEN [found |-> TRUE, idx |-> i]
         ELSE findNextFreeScan(bs, IF dir > 0 THEN wrapInc(i) ELSE wrapDec(i),
                               dir, count + 1)

findNextFreeFrom(bs, start, dir) == findNextFreeScan(bs, start, dir, 0)

\* Faulty variant of hasWin: a line counts when its cells are set in any colour.
hasWin_anyColor(bs, c) ==
    \E w \in 1 .. Len(kWins) :
        \A k \in 1 .. 3 : \E d \in Colors : bs.gameBoard[d][kWins[w][k]]

hasWin(bs, c) ==
    \E w \in 1 .. Len(kWins) :
        /\ bs.gameBoard[c][kWins[w][1]]
        /\ bs.gameBoard[c][kWins[w][2]]
        /\ bs.gameBoard[c][kWins[w][3]]

\* Faulty variant of boardFull: the last cell is not examined.
boardFull_short(bs) == \A i \in 0 .. (NUM_LED_PER_COLOR - 2) : cellOccupied(bs, i)

boardFull(bs) == \A i \in Cells : cellOccupied(bs, i)

\* Faulty variant of moveCursorToNextFree: the scan starts at the cursor itself.
moveCursorToNextFree_fromCursor(bs, dir) ==
    LET r == findNextFreeFrom(bs, bs.cursor, dir)
    IN  IF r.found THEN [bs EXCEPT !.cursor = r.idx] ELSE bs

moveCursorToNextFree(bs, dir) ==
    LET start == IF dir > 0 THEN wrapInc(bs.cursor) ELSE wrapDec(bs.cursor)
        r == findNextFreeFrom(bs, start, dir)
    IN  IF r.found THEN [bs EXCEPT !.cursor = r.idx] ELSE bs

\* Faulty variant of endTurn: the full board is tested before the win.
endTurn_fullFirst(bs) ==
    IF boardFull(bs)
    THEN [bs |-> bs, ret |-> eStalemate]
    ELSE IF hasWin(bs, bs.currentColor)
         THEN [bs |-> bs,
               ret |-> IF bs.currentColor = eRedLed THEN eRedPlayerWin ELSE eGreenPlayerWin]
         ELSE LET sw == [bs EXCEPT !.currentColor =
                              IF bs.currentColor = eRedLed THEN eGreenLed ELSE eRedLed]
              IN  [bs |-> moveCursorToNextFree(sw, 1), ret |-> eOngoingGame]

\* Faulty variant of endTurn: the active colour is not switched.
endTurn_noSwitch(bs) ==
    IF hasWin(bs, bs.currentColor)
    THEN [bs |-> bs,
          ret |-> IF bs.currentColor = eRedLed THEN eRedPlayerWin ELSE eGreenPlayerWin]
    ELSE IF boardFull(bs)
         THEN [bs |-> bs, ret |-> eStalemate]
         ELSE [bs |-> moveCursorToNextFree(bs, 1), ret |-> eOngoingGame]

\* Faulty variant of endTurn: the cursor is not advanced after the switch.
endTurn_noAdvance(bs) ==
    IF hasWin(bs, bs.currentColor)
    THEN [bs |-> bs,
          ret |-> IF bs.currentColor = eRedLed THEN eRedPlayerWin ELSE eGreenPlayerWin]
    ELSE IF boardFull(bs)
         THEN [bs |-> bs, ret |-> eStalemate]
         ELSE [bs |-> [bs EXCEPT !.currentColor =
                              IF bs.currentColor = eRedLed THEN eGreenLed ELSE eRedLed],
               ret |-> eOngoingGame]

\* endTurn: [bs, ret] = the board after the call and the returned outcome.
endTurn(bs) ==
    IF hasWin(bs, bs.currentColor)
    THEN [bs |-> bs,
          ret |-> IF bs.currentColor = eRedLed THEN eRedPlayerWin ELSE eGreenPlayerWin]
    ELSE IF boardFull(bs)
         THEN [bs |-> bs, ret |-> eStalemate]
         ELSE LET sw == [bs EXCEPT !.currentColor =
                              IF bs.currentColor = eRedLed THEN eGreenLed ELSE eRedLed]
              IN  [bs |-> moveCursorToNextFree(sw, 1), ret |-> eOngoingGame]

\* The placement of the long-press branch of checkBoard.
placeAtCursor(bs) ==
    [bs EXCEPT !.gameBoard[bs.currentColor][bs.cursor] = TRUE]

\* The tail of checkBoard after the switch: cursor self-correction and the
\* re-evaluation of the board.
checkBoardTail(bs) ==
    LET r == findNextFreeFrom(bs, bs.cursor, 1)
        fixed == IF cellOccupied(bs, bs.cursor) /\ r.found
                 THEN [bs EXCEPT !.cursor = r.idx] ELSE bs
    IN  IF cellOccupied(bs, bs.cursor) /\ ~r.found
        THEN [bs |-> bs, ret |-> eStalemate]
        ELSE [bs |-> fixed,
              ret |-> IF hasWin(fixed, eRedLed) THEN eRedPlayerWin
                      ELSE IF hasWin(fixed, eGreenLed) THEN eGreenPlayerWin
                      ELSE IF boardFull(fixed) THEN eStalemate
                      ELSE eOngoingGame]

\* Faulty variant of checkBoard: the double-press case has no break and
\* falls through into the long-press case.
checkBoard_doubleFallsThrough(bs, buttonState) ==
    LET back == moveCursorToNextFree(bs, -1)
    IN  IF buttonState = eBtnShortKeyPress
        THEN checkBoardTail(moveCursorToNextFree(bs, 1))
        ELSE IF buttonState \in {eBtnDoubleKeyPress, eBtnLongKeyPress}
        THEN LET b == IF buttonState = eBtnDoubleKeyPress THEN back ELSE bs
             IN  IF ~cellOccupied(b, b.cursor)
                 THEN endTurn(placeAtCursor(b))
                 ELSE checkBoardTail(moveCursorToNextFree(b, 1))
        ELSE checkBoardTail(bs)

\* checkBoard: [bs, ret] for board bs and button event buttonState.
checkBoard(bs, buttonState) ==
    IF buttonState = eBtnShortKeyPress
    THEN checkBoardTail(moveCursorToNextFree(bs, 1))
    ELSE IF buttonState = eBtnDoubleKeyPress
    THEN checkBoardTail(moveCursorToNextFree(bs, -1))
    ELSE IF buttonState = eBtnLongKeyPress
    THEN IF ~cellOccupied(bs, bs.cursor)
         THEN endTurn(placeAtCursor(bs))
         ELSE checkBoardTail(moveCursorToNextFree(bs, 1))
    ELSE checkBoardTail(bs)

\* The branches of checkBoard taken for board bs and event buttonState:
\* longOccupied, the LongPress branch that finds the cursor cell occupied;
\* selfCorrect, the cursor check after the switch that finds it occupied.
checkBoardBranches(bs, buttonState) ==
    LET places == buttonState = eBtnLongKeyPress /\ ~cellOccupied(bs, bs.cursor)
        moved == IF buttonState = eBtnShortKeyPress THEN moveCursorToNextFree(bs, 1)
                 ELSE IF buttonState = eBtnDoubleKeyPress THEN moveCursorToNextFree(bs, -1)
                 ELSE IF buttonState = eBtnLongKeyPress THEN moveCursorToNextFree(bs, 1)
                 ELSE bs
    IN  [longOccupied |-> buttonState = eBtnLongKeyPress /\ cellOccupied(bs, bs.cursor),
         selfCorrect |-> ~places /\ cellOccupied(moved, moved.cursor)]

\* The board written by setup().
EmptyGrid == [c \in Colors |-> [i \in Cells |-> FALSE]]
\* Faulty variant of setupBoard: green is made the active colour.
setupBoard_greenFirst == [gameBoard |-> EmptyGrid, cursor |-> 0, currentColor |-> eGreenLed]
setupBoard == [gameBoard |-> EmptyGrid, cursor |-> 0, currentColor |-> eRedLed]


(***************************************************************************)
(* State.                                                                  *)
(***************************************************************************)
VARIABLES
    gameBoard,          \* boardState.gameBoard
    cursor,             \* boardState.cursor
    currentColor,       \* boardState.currentColor
    currentGameState,   \* the game outcome the main loop dispatches on
    milis,              \* the 32-bit tick counter
    st, t0, dur1, dur2, \* statics of checkButton
    lastState, started, cycles,   \* statics of playSequence
    call,               \* the last board operation, as seen by its caller
    script,             \* progress of the placements along ScriptCells
    priorOngoing,       \* every earlier checkBoard call of this game returned ongoing
    plan, seg, left,    \* the button signal: segment lengths, current segment, ticks left
    tickStart,          \* the tick counter when the button signal started
    evCount, btnCall,   \* events returned by checkButton so far, and its last call
    anim,               \* the last playSequence call, as seen by its caller
    probe,              \* the last application of a pure board function
    iter,               \* the last iteration of the main loop
    since,              \* ticks since the press edge and since the double-press
                        \* window opened, as they will be at the next checkButton
    regs,               \* the I/O registers DDRA, PORTA, DDRC, PORTC, as sets of bits
    led                 \* the LED driver: the calls to make, the register writes
                        \* and delays left in the current call, the last one done

boardVars == <<gameBoard, cursor, currentColor>>
gameObs == <<call, script, priorOngoing>>
btnVars == <<st, t0, dur1, dur2>>
btnEnv == <<plan, seg, left, tickStart, evCount, btnCall>>
animVars == <<lastState, started, cycles>>
ledVars == <<regs, led>>
auxVars == <<iter, since, ledVars>>
vars == <<boardVars, currentGameState, milis, btnVars, animVars,
          gameObs, btnEnv, anim, probe, auxVars>>

boardState == [gameBoard |-> gameBoard, cursor |-> cursor, currentColor |-> currentColor]

\* States of the button FSM (btn_state_t), in declaration order.
S_IDLE == 0
S_DEB_PRESS == 1
S_PRESSED == 2
S_DEB_RELEASE == 3
S_WAIT2 == 4
S_DEB_PRESS2 == 5
S_PRESSED2 == 6
S_DEB_RELEASE2 == 7

(***************************************************************************)
(* Initial values: the statics as the C start-up code leaves them, the     *)
(* board as setup() leaves it.                                             *)
(***************************************************************************)
InitBoard ==
    /\ gameBoard = setupBoard.gameBoard
    /\ cursor = setupBoard.cursor
    /\ currentColor = setupBoard.currentColor
    /\ currentGameState = eOngoingGame

InitButton == st = S_IDLE /\ t0 = 0 /\ dur1 = 0 /\ dur2 = 0

InitAnim == lastState = eGameRestart /\ started = FALSE /\ cycles = 0

NoCall == [op |-> "setup"]
NoAnim == [op |-> "none", n |-> 0]
NoProbe == [op |-> "none"]
NoIter == [op |-> "none"]
NoBtnCall ==
    [pressed |-> FALSE, ret |-> eBtnUndefined, from |-> S_IDLE, edge |-> 0, open |-> 0,
     waiting |-> FALSE, quiet |-> 0, events |-> 0]
NoSince == [edge |-> 0, open |-> 0, waiting |-> FALSE, quiet |-> 0, events |-> 0]
\* initIO(): the five lines are inputs with the latch low.
ClearRegs == [DDRA |-> {}, PORTA |-> {}, DDRC |-> {}, PORTC |-> {}]
NoOp == [op |-> "none", in |-> "none"]
IdleLed ==
    [todo |-> << >>, ops |-> << >>, cells |-> << >>, color |-> eRedLed, mask |-> << >>,
     left |-> 0, tail |-> << >>, last |-> NoOp]
InitAux == iter = NoIter /\ since = NoSince /\ regs = ClearRegs /\ led = IdleLed

InitGameObs == call = NoCall /\ script = 0 /\ priorOngoing = TRUE

InitNoButtonSignal ==
    /\ plan = <<>> /\ seg = 1 /\ left = 0 /\ tickStart = Tick0
    /\ evCount = [e \in ButtonEvents |-> 0]
    /\ btnCall = NoBtnCall

(***************************************************************************)
(* The game: checkBoard called on the board, its result stored in the      *)
(* outcome, and setup() starting the next game.                            *)
(***************************************************************************)
\* The placements of the end-to-end scenario: red 0, green 3, red 1,
\* green 4, red 2.
ScriptCells == <<0, 3, 1, 4, 2>>
ScriptOff == Len(ScriptCells) + 1

\* Cells whose occupancy differs between two grids.
ChangedCells(g1, g2) ==
    {i \in Cells : \E c \in Colors : g1[c][i] # g2[c][i]}

ScriptStep(pos, placed) ==
    IF placed = {} THEN pos
    ELSE IF pos # ScriptOff /\ pos < Len(ScriptCells) /\ placed = {ScriptCells[pos + 1]}
         THEN pos + 1
         ELSE ScriptOff

\* One call currentGameState = checkBoard(&boardState, ev).
CheckBoardCall(ev) ==
    \E r \in {checkBoard(boardState, ev)} :
    \E placed \in {ChangedCells(gameBoard, r.bs.gameBoard)} :
        /\ gameBoard' = r.bs.gameBoard
        /\ cursor' = r.bs.cursor
        /\ currentColor' = r.bs.currentColor
        /\ currentGameState' = r.ret
        /\ call' = [op |-> "checkBoard", ev |-> ev, ret |-> r.ret, placed |-> placed,
                    branches |-> checkBoardBranches(boardState, ev)]
        /\ script' = ScriptStep(script, placed)
        /\ priorOngoing' = (call.op = "setup" \/ (priorOngoing /\ call.ret = eOngoingGame))
        /\ UNCHANGED <<milis, btnVars, animVars, btnEnv, anim, probe, auxVars>>

\* The main loop calls checkBoard only while the game is ongoing.
GameCall(ev) ==
    /\ currentGameState = eOngoingGame
    /\ CheckBoardCall(ev)

\* setup(): a new game, once the previous one has ended.
GameSetup ==
    /\ currentGameState \in TerminalStates
    /\ gameBoard' = setupBoard.gameBoard
    /\ cursor' = setupBoard.cursor
    /\ currentColor' = setupBoard.currentColor
    /\ currentGameState' = eOngoingGame
    /\ call' = NoCall
    /\ script' = 0
    /\ priorOngoing' = TRUE
    /\ UNCHANGED <<milis, btnVars, animVars, btnEnv, anim, probe, auxVars>>

InitGame ==
    /\ InitBoard /\ InitButton /\ InitAnim /\ InitGameObs /\ InitNoButtonSignal
    /\ milis = Tick0 /\ anim = NoAnim /\ probe = NoProbe /\ InitAux

NextGame == (\E ev \in ButtonEvents : GameCall(ev)) \/ GameSetup

SpecGame == InitGame /\ [][NextGame]_vars

\* Any sequence of checkBoard calls, also after the game has ended.
NextCalls == \E ev \in ButtonEvents : CheckBoardCall(ev)

SpecCalls == InitGame /\ [][NextCalls]_vars


(***************************************************************************)
(* The pure board functions applied to boards drawn from bounded families. *)
(***************************************************************************)
SetGrid(R, G) ==
    [c \in Colors |-> [i \in Cells |-> IF c = eRedLed THEN i \in R ELSE i \in G]]

EvenCells == {i \in Cells : i % 2 = 0}
ColorMasks == {Cells, {}, EvenCells}

\* Every occupancy pattern of the 9 cells, coloured all red, all green or
\* by parity, and the same with red set on every occupied cell as well.
MoveBoards ==
    {SetGrid(occ \cap M, occ \ M) : occ \in SUBSET Cells, M \in ColorMasks}
    \cup {SetGrid(occ, occ \cap M) : occ \in SUBSET Cells, M \in ColorMasks}

\* The 8 lines of the 3x3 board, as sets of cells.
Triples ==
    {{0, 1, 2}, {3, 4, 5}, {6, 7, 8}, {0, 3, 6}, {1, 4, 7}, {2, 5, 8},
     {0, 4, 8}, {2, 4, 6}}

\* Every grid W of one colour against the other colour's grid empty, full,
\* equal to W, the complement of W, or exactly one line.
WinBoards ==
    {SetGrid(W, O) : W \in SUBSET Cells, O \in {{}, Cells} \cup Triples}
    \cup {SetGrid(O, W) : W \in SUBSET Cells, O \in {{}, Cells} \cup Triples}
    \cup {SetGrid(W, W) : W \in SUBSET Cells}
    \cup {SetGrid(W, Cells \ W) : W \in SUBSET Cells}

InitRest ==
    /\ currentGameState = eOngoingGame
    /\ InitButton /\ InitAnim /\ InitGameObs /\ InitNoButtonSignal
    /\ milis = Tick0 /\ anim = NoAnim /\ probe = NoProbe /\ InitAux

InitMove ==
    /\ gameBoard \in MoveBoards
    /\ cursor \in Cells
    /\ currentColor = eRedLed
    /\ InitRest

\* moveCursorToNextFree(&boardState, dir)
MoveProbe(dir) ==
    LET r == moveCursorToNextFree(boardState, dir)
    IN  /\ gameBoard' = r.gameBoard
        /\ cursor' = r.cursor
        /\ currentColor' = r.currentColor
        /\ probe' = [op |-> "move", dir |-> dir, from |-> cursor]
        /\ UNCHANGED <<currentGameState, milis, btnVars, animVars, gameObs,
                       btnEnv, anim, auxVars>>

NextMove == \E dir \in {1, -1} : MoveProbe(dir)

SpecMove == InitMove /\ [][NextMove]_vars

InitWin ==
    /\ gameBoard \in WinBoards
    /\ cursor = 0
    /\ currentColor = eRedLed
    /\ InitRest

\* hasWin(&boardState, c)
WinProbe(c) ==
    /\ probe' = [op |-> "win", color |-> c, result |-> hasWin(boardState, c)]
    /\ UNCHANGED <<boardVars, currentGameState, milis, btnVars, animVars,
                   gameObs, btnEnv, anim, auxVars>>

NextWin == \E c \in Colors : WinProbe(c)

SpecWin == InitWin /\ [][NextWin]_vars


(***************************************************************************)
(* The button gesture FSM.  milis is a uint32_t, t0, dur1 and dur2 are      *)
(* uint16_t: a store into them keeps the low 16 bits, and milis - t0 is     *)
(* computed in 32 bits with t0 zero-extended.                              *)
(***************************************************************************)
T_DB == 10
T_LONG == 1000
T_DBL == 500

\* t0 = milis, dur = <32-bit value>: the store keeps the low 16 bits.
U16(m) == m.lo

\* milis - t0 in 32 bits, t0 zero-extended.
Elapsed(now, b) ==
    [hi |-> (now.hi - (IF now.lo < b.t0 THEN 1 ELSE 0)) % W16,
     lo |-> (now.lo - b.t0) % W16]

\* Faulty variant of AtLeast: the comparison is strict.
AtLeast_strict(e, T) == e.hi > 0 \/ e.lo > T

\* (milis - t0) >= T for a threshold T below 2^16.
AtLeast(e, T) == e.hi > 0 \/ e.lo >= T

\* Faulty variant of IsLongDuration: the double-press window is compared instead.
IsLongDuration_wrongThreshold(dur) == dur >= T_DBL

\* dur1 >= T_LONG, dur2 >= T_LONG
IsLongDuration(dur) == dur >= T_LONG

\* checkButton() with the pin reading pressed at tick now; b = [st, t0,
\* dur1, dur2] are the statics.  Result: the statics after the call and
\* the returned event.
checkButton(b, pressed, now) ==
    LET stay == [st |-> b.st, t0 |-> b.t0, dur1 |-> b.dur1, dur2 |-> b.dur2,
                 ret |-> eBtnUndefined]
    IN
    IF b.st = S_IDLE THEN
        IF pressed THEN [stay EXCEPT !.st = S_DEB_PRESS, !.t0 = U16(now)] ELSE stay
    ELSE IF b.st = S_DEB_PRESS THEN
        IF ~pressed THEN [stay EXCEPT !.st = S_IDLE]
        ELSE IF AtLeast(Elapsed(now, b), T_DB)
             THEN [stay EXCEPT !.st = S_PRESSED, !.t0 = U16(now)]
             ELSE stay
    ELSE IF b.st = S_PRESSED THEN
        IF ~pressed
        THEN [stay EXCEPT !.dur1 = U16(Elapsed(now, b)), !.st = S_DEB_RELEASE,
                          !.t0 = U16(now)]
        ELSE stay
    ELSE IF b.st = S_DEB_RELEASE THEN
        IF pressed THEN [stay EXCEPT !.st = S_PRESSED]
        ELSE IF AtLeast(Elapsed(now, b), T_DB)
             THEN IF IsLongDuration(b.dur1)
                  THEN [stay EXCEPT !.st = S_IDLE, !.ret = eBtnLongKeyPress]
                  ELSE [stay EXCEPT !.st = S_WAIT2, !.t0 = U16(now)]
             ELSE stay
    ELSE IF b.st = S_WAIT2 THEN
        IF pressed THEN [stay EXCEPT !.st = S_DEB_PRESS2, !.t0 = U16(now)]
        ELSE IF AtLeast(Elapsed(now, b), T_DBL)
             THEN [stay EXCEPT !.st = S_IDLE, !.ret = eBtnShortKeyPress]
             ELSE stay
    ELSE IF b.st = S_DEB_PRESS2 THEN
        IF ~pressed THEN [stay EXCEPT !.st = S_WAIT2]
        ELSE IF AtLeast(Elapsed(now, b), T_DB)
             THEN [stay EXCEPT !.st = S_PRESSED2, !.t0 = U16(now)]
             ELSE stay
    ELSE IF b.st = S_PRESSED2 THEN
        IF ~pressed
        THEN [stay EXCEPT !.dur2 = U16(Elapsed(now, b)), !.st = S_DEB_RELEASE2,
                          !.t0 = U16(now)]
        ELSE stay
    ELSE IF b.st = S_DEB_RELEASE2 THEN
        IF pressed THEN [stay EXCEPT !.st = S_PRESSED2]
        ELSE IF AtLeast(Elapsed(now, b), T_DB)
             THEN [stay EXCEPT !.st = S_IDLE,
                               !.ret = IF IsLongDuration(b.dur2) THEN eBtnLongKeyPress
                                       ELSE eBtnDoubleKeyPress]
             ELSE stay
    ELSE [stay EXCEPT !.st = S_IDLE]

buttonStatics == [st |-> st, t0 |-> t0, dur1 |-> dur1, dur2 |-> dur2]

\* The record of a checkButton call: the pin reading, the returned event,
\* the state it was entered in, and the ticks elapsed at the call since the
\* press edge (Idle to DebouncePress) and since the double-press window
\* opened (DebounceRelease to WaitSecondPress); waiting: no pressed reading
\* has been seen since the window opened.  quiet: the ticks elapsed at the
\* call since the first released reading of the current run of released
\* readings; events: the events returned in that run, this call included.
EventsInRun(pressed, ret) ==
    IF pressed THEN 0 ELSE since.events + (IF ret # eBtnUndefined THEN 1 ELSE 0)

ButtonCallRecord(pressed, ret) ==
    [pressed |-> pressed, ret |-> ret, from |-> st, edge |-> since.edge,
     open |-> since.open, waiting |-> since.waiting,
     quiet |-> IF pressed THEN 0 ELSE since.quiet,
     events |-> EventsInRun(pressed, ret)]

\* The same elapsed times at the next call, d ticks after a call that took
\* the FSM from state st to state to.
SinceAfter(to, pressed, ret, d) ==
    LET opened == st = S_DEB_RELEASE /\ to = S_WAIT2
    IN  [edge |-> IF st = S_IDLE /\ to = S_DEB_PRESS THEN d ELSE since.edge + d,
         open |-> IF opened THEN d ELSE since.open + d,
         waiting |-> IF opened THEN TRUE ELSE IF pressed THEN FALSE ELSE since.waiting,
         quiet |-> IF pressed THEN 0 ELSE since.quiet + d,
         events |-> EventsInRun(pressed, ret)]

(***************************************************************************)
(* The button signal.  A plan is a sequence of segment lengths in ticks;   *)
(* the button is pressed during the odd segments and released during the   *)
(* even ones.  checkButton samples it once per tick.                       *)
(***************************************************************************)
IdleTail == 600
MaxPulses == 2
StartSlack == 5
HoldSpread == 3

\* Tick counts at which a run starts: power-up, just before and at the
\* first overflow of a 16-bit time stamp, just before the 32-bit wrap.
StartTicks ==
    {Tick0, [hi |-> 0, lo |-> W16 - StartSlack], [hi |-> 1, lo |-> 0],
     [hi |-> W16 - 1, lo |-> W16 - StartSlack]}

\* Holds of a single press: around the debounce window, the examples of 15
\* and 50 ticks, around the long-press threshold, and the example of 1200.
ShortHolds ==
    ((T_DB + 1) .. (T_DB + 1 + HoldSpread)) \cup {15, 50}
        \cup ((T_LONG - 1 - HoldSpread) .. (T_LONG - 1))
LongHolds == (T_LONG .. (T_LONG + T_DB + HoldSpread)) \cup {1200}
SinglePlans == {<<h, IdleTail>> : h \in ShortHolds \cup LongHolds}

DoubleHolds == {T_DB + 1, 50}
DoubleGaps == {T_DB + 1, 200, T_DB + T_DBL}
DoublePlans ==
    {<<h1, g, h2, IdleTail>> : h1 \in DoubleHolds, g \in DoubleGaps, h2 \in DoubleHolds}

\* Trains of pulses shorter than the debounce window.
PulseLens == 1 .. (T_DB - 1)
PulseGaps == {1, T_DB + 1}
PulseTrain(ps, g) == [i \in 1 .. (2 * Len(ps)) |-> IF i % 2 = 1 THEN ps[(i + 1) \div 2] ELSE g]
BouncePlans ==
    {PulseTrain(ps, g) : ps \in UNION {[1 .. k -> PulseLens] : k \in 1 .. MaxPulses},
                         g \in PulseGaps}

\* A held press interrupted by one release shorter than the debounce window,
\* alone or as the second press of a double press.
BounceHold == 600
BouncedHolds == {BounceHold, T_LONG + T_DB + BounceHold}
ReleaseBounces == {1, T_DB - 1}
BouncedPlans ==
    {<<h1, b, h2, IdleTail>> : h1 \in {BounceHold}, b \in ReleaseBounces, h2 \in BouncedHolds}
BouncedSecondPlans ==
    {<<50, 200, h1, b, h2, IdleTail>> :
        h1 \in {BounceHold}, b \in ReleaseBounces, h2 \in {50, BounceHold}}

Plans == SinglePlans \cup DoublePlans \cup BouncePlans \cup BouncedPlans
            \cup BouncedSecondPlans

InitButtonRun ==
    /\ InitBoard /\ InitButton /\ InitAnim /\ InitGameObs
    /\ milis \in StartTicks
    /\ tickStart = milis
    /\ plan \in Plans
    /\ seg = 1
    /\ left = plan[1]
    /\ evCount = [e \in ButtonEvents |-> 0]
    /\ btnCall = NoBtnCall
    /\ anim = NoAnim /\ probe = NoProbe /\ InitAux

\* One tick: checkButton() samples the button, then delay_ms(1).
ButtonTick ==
    /\ seg <= Len(plan)
    /\ LET pressed == (seg % 2 = 1)
           r == checkButton(buttonStatics, pressed, milis)
       IN  /\ st' = r.st /\ t0' = r.t0 /\ dur1' = r.dur1 /\ dur2' = r.dur2
           /\ evCount' = [evCount EXCEPT ![r.ret] = @ + 1]
           /\ btnCall' = ButtonCallRecord(pressed, r.ret)
           /\ since' = SinceAfter(r.st, pressed, r.ret, 1)
    /\ milis' = TickAdd(milis, 1)
    /\ IF left > 1
       THEN left' = left - 1 /\ seg' = seg
       ELSE /\ seg' = seg + 1
            /\ left' = IF seg + 1 <= Len(plan) THEN plan[seg + 1] ELSE 0
    /\ UNCHANGED <<plan, tickStart>>
    /\ UNCHANGED <<boardVars, currentGameState, animVars, gameObs, anim, probe, iter,
                   ledVars>>

NextButton == ButtonTick

SpecButton == InitButtonRun /\ [][NextButton]_vars

(***************************************************************************)
(* The end-of-game animation FSM.                                          *)
(***************************************************************************)
ANIM_T_ON == 1000
ANIM_T_OFF == 500
LED_ANIM_MS == 2
ANIM_CYCLES == 3

\* The masks of lightAll and lightX, as sets of cells.
allMask == Cells
xMask == {0, 2, 4, 6, 8}

\* The cells lit by lightMask(color, mask, duration_ms): the cells of the
\* mask are lit in index order, 2 ticks each, until the elapsed time reaches
\* the duration.
lightMaskCells(mask, duration_ms) ==
    {i \in mask : LED_ANIM_MS * Cardinality({j \in mask : j < i}) < duration_ms}

\* Ticks spent by lightMask(color, mask, duration_ms) for a mask with at
\* least one cell: lightCell holds 2 ticks at a time until the elapsed time
\* reaches the duration.
lightMaskTicks(duration_ms) ==
    LED_ANIM_MS * ((duration_ms + LED_ANIM_MS - 1) \div LED_ANIM_MS)

\* Faulty variant of AnimDone: the comparison is strict.
AnimDone_strict(n) == n > ANIM_CYCLES

\* cycles >= 3
AnimDone(n) == n >= ANIM_CYCLES

\* Faulty variant of stalemateColor: the parity test is inverted.
stalemateColor_inverted(n) == IF n % 2 = 0 THEN eGreenLed ELSE eRedLed

\* (cycles % 2 == 0) ? eRedLed : eGreenLed
stalemateColor(n) == IF n % 2 = 0 THEN eRedLed ELSE eGreenLed

\* playSequence(gameState); a = [lastState, started, cycles] are the statics.
\* Result: the statics after the call, the returned flag, the colour lit in
\* this cycle, the LEDs lit (the lightCell calls, as <<color, cell>>) and
\* the ticks spent.
playSequence(a, gameState) ==
    LET fresh == ~a.started \/ a.lastState # gameState
        cyc0 == IF fresh THEN 0 ELSE a.cycles
        color == IF gameState = eRedPlayerWin THEN eRedLed
                 ELSE IF gameState = eGreenPlayerWin THEN eGreenLed
                 ELSE stalemateColor(cyc0)
        mask == IF gameState \in {eRedPlayerWin, eGreenPlayerWin} THEN allMask ELSE xMask
        lit == {<<color, i>> : i \in lightMaskCells(mask, ANIM_T_ON)}
        cyc1 == (cyc0 + 1) % 256
        ticks == lightMaskTicks(ANIM_T_ON) + ANIM_T_OFF
    IN  IF AnimDone(cyc1)
        THEN [lastState |-> gameState, started |-> FALSE, cycles |-> 0,
              ret |-> TRUE, color |-> color, lit |-> lit, ticks |-> ticks]
        ELSE [lastState |-> gameState, started |-> TRUE, cycles |-> cyc1,
              ret |-> FALSE, color |-> color, lit |-> lit, ticks |-> ticks]

animStatics == [lastState |-> lastState, started |-> started, cycles |-> cycles]

MaxAnimCalls == 15

InitAnimRun ==
    /\ InitBoard /\ InitButton /\ InitAnim /\ InitGameObs /\ InitNoButtonSignal
    /\ milis \in StartTicks
    /\ anim = NoAnim
    /\ probe = NoProbe
    /\ InitAux

\* One call playSequence(gameState) with a terminal outcome.  anim records
\* the argument, the returned flag, the number of calls so far and streak:
\* the position of this call in its sequence, a sequence starting at the
\* first call, after a call that returned true, or when the argument changes.
AnimCall(gameState) ==
    /\ anim.n < MaxAnimCalls
    /\ LET r == playSequence(animStatics, gameState)
           continues == anim.op = "play" /\ anim.arg = gameState /\ ~anim.ret
       IN  /\ lastState' = r.lastState
           /\ started' = r.started
           /\ cycles' = r.cycles
           /\ milis' = TickAdd(milis, r.ticks)
           /\ anim' = [op |-> "play", n |-> anim.n + 1, arg |-> gameState,
                       ret |-> r.ret, lit |-> r.lit,
                       streak |-> IF continues THEN anim.streak + 1 ELSE 1]
    /\ UNCHANGED <<boardVars, currentGameState, btnVars, gameObs, btnEnv, probe, auxVars>>

NextAnim == \E gameState \in TerminalStates : AnimCall(gameState)

SpecAnim == InitAnimRun /\ [][NextAnim]_vars

(***************************************************************************)
(* The board display and the main loop.                                    *)
(***************************************************************************)
DISP_T_ON == 500
DISP_T_OFF == 100
LED_SCAN_MS == 3
LED_CURSOR_MS == 1
LOOP_DELAY_MS == 1

\* milis % T for a period T below 2^16.
TickMod(m, T) == ((m.hi % T) * (W16 % T) + m.lo) % T

\* Faulty variant of displayBoard: the cursor is lit in both blink phases.
displayBoard_noBlink(bs, now) ==
    LET scanAll == [k \in 1 .. NUM_LED_PER_COLOR |->
                       <<IF bs.gameBoard[eRedLed][k - 1] THEN eRedLed ELSE eGreenLed,
                         k - 1, LED_SCAN_MS>>]
        scan == SelectSeq(scanAll,
                          LAMBDA c : bs.gameBoard[eRedLed][c[2]] \/ bs.gameBoard[eGreenLed][c[2]])
        libre == ~bs.gameBoard[eRedLed][bs.cursor] /\ ~bs.gameBoard[eGreenLed][bs.cursor]
    IN  scan \o (IF libre
                 THEN << <<bs.currentColor, bs.cursor, LED_CURSOR_MS>> >>
                 ELSE << >>)

\* The lightCell calls made by displayBoard(bs) entered at tick now, in
\* order, each <<color, cell, led_ms>>: the occupied cells (red has priority),
\* then the cursor cell when it is free and the blink phase is on.
displayBoard(bs, now) ==
    LET scanAll == [k \in 1 .. NUM_LED_PER_COLOR |->
                       <<IF bs.gameBoard[eRedLed][k - 1] THEN eRedLed ELSE eGreenLed,
                         k - 1, LED_SCAN_MS>>]
        scan == SelectSeq(scanAll,
                          LAMBDA c : bs.gameBoard[eRedLed][c[2]] \/ bs.gameBoard[eGreenLed][c[2]])
        cursorOn == TickMod(now, DISP_T_ON + DISP_T_OFF) < DISP_T_ON
        libre == ~bs.gameBoard[eRedLed][bs.cursor] /\ ~bs.gameBoard[eGreenLed][bs.cursor]
    IN  scan \o (IF cursorOn /\ libre
                 THEN << <<bs.currentColor, bs.cursor, LED_CURSOR_MS>> >>
                 ELSE << >>)

\* The ticks spent in a sequence of lightCell calls.
RECURSIVE holdTicks(_)
holdTicks(cs) == IF cs = << >> THEN 0 ELSE cs[1][3] + holdTicks(Tail(cs))

\* The button signal d ticks later: p the plan, s the current segment, l
\* the ticks left in it.
RECURSIVE PlanAdvance(_, _, _, _)
PlanAdvance(p, s, l, d) ==
    IF s > Len(p) THEN [seg |-> s, left |-> 0]
    ELSE IF d < l THEN [seg |-> s, left |-> l - d]
    ELSE PlanAdvance(p, s + 1, IF s + 1 <= Len(p) THEN p[s + 1] ELSE 0, d - l)

\* Button gestures of the players, as segments of the signal, and the games
\* played: sequences of long, short and double presses and pauses.
GestureHold == 100
GestureLongHold == 1100
GestureGap == 100
GestureTail == 700
PauseTicks == 5000

GestureSignal(g) ==
    IF g = "L" THEN <<GestureLongHold, GestureGap>>
    ELSE IF g = "S" THEN <<GestureHold, GestureTail>>
    ELSE IF g = "D" THEN <<GestureHold, GestureGap, GestureHold, GestureGap>>
    ELSE <<1, PauseTicks>>

RECURSIVE GameSignal(_)
GameSignal(gs) == IF gs = << >> THEN << >> ELSE GestureSignal(gs[1]) \o GameSignal(Tail(gs))

\* Seven placements in a row: red wins with 2, 4, 6.
RedWinGame == <<"L", "L", "L", "L", "L", "L", "L">>
\* The cursor moved on first: green wins with 2, 4, 6.
GreenWinGame == <<"S", "L", "L", "L", "L", "L", "L">>
\* Red 0, green 1, red 2, green 4, red 3, green 5, red 7, green 6, red 8.
StalemateGame == <<"L", "L", "L", "S", "L", "D", "L", "L", "S", "L", "D", "L", "L">>
\* The quickest games: red wins with 0, 1, 2; a stalemate with one cursor move.
QuickRedWinGame == <<"L", "D", "L", "L", "D", "L", "L">>
QuickStalemateGame == <<"L", "L", "L", "D", "L", "L", "L", "L", "L", "L">>
\* What the players do once the game has ended.
Afterwards == {<<"P">>, <<"L", "S", "P">>, <<"D", "L", "P">>, <<"S", "S", "P", "L">>}
\* Several games in a row, taking the tick counter beyond 2^16.
Session ==
    RedWinGame \o <<"P">> \o GreenWinGame \o <<"P">> \o StalemateGame \o <<"P">>
        \o RedWinGame \o <<"L", "P">> \o StalemateGame \o <<"S", "P">> \o GreenWinGame
        \o <<"P", "L", "D", "L">>

LoopPlans ==
    {GameSignal(g \o a) : g \in {RedWinGame, GreenWinGame, StalemateGame}, a \in Afterwards}
        \cup {GameSignal(g) : g \in {QuickRedWinGame, QuickStalemateGame}}
        \cup {GameSignal(Session)}

\* The program start: the statics as the C start-up code leaves them and
\* setup() called once before the first loop iteration.
InitLoop ==
    /\ InitBoard /\ InitButton /\ InitAnim /\ InitGameObs
    /\ milis = Tick0
    /\ tickStart = milis
    /\ plan \in LoopPlans
    /\ seg = 1
    /\ left = plan[1]
    /\ evCount = [e \in ButtonEvents |-> 0]
    /\ btnCall = NoBtnCall
    /\ anim = NoAnim /\ probe = NoProbe /\ InitAux

\* The run goes on until the button signal is over, the game is ongoing and
\* the button FSM is idle.
LoopRunning ==
    ~(seg > Len(plan) /\ currentGameState = eOngoingGame /\ st = S_IDLE)

\* One iteration of loop(): b is the result of checkButton(), r of
\* checkBoard (when called), p of playSequence (when called) and spent the
\* ticks the iteration takes.
LoopBody(pressed, b, called, r, p, spent) ==
    LET ongoing == currentGameState = eOngoingGame
        terminal == currentGameState \in TerminalStates
        continues == anim.op = "play" /\ anim.arg = currentGameState /\ ~anim.ret
        done == terminal /\ p.ret
        sig == PlanAdvance(plan, seg, left, spent)
        placed == ChangedCells(gameBoard, r.bs.gameBoard)
    IN  /\ st' = b.st /\ t0' = b.t0 /\ dur1' = b.dur1 /\ dur2' = b.dur2
        /\ evCount' = [evCount EXCEPT ![b.ret] = @ + 1]
        /\ btnCall' = ButtonCallRecord(pressed, b.ret)
        /\ since' = SinceAfter(b.st, pressed, b.ret, spent)
        /\ IF ongoing
           THEN /\ gameBoard' = r.bs.gameBoard
                /\ cursor' = r.bs.cursor
                /\ currentColor' = r.bs.currentColor
                /\ currentGameState' = r.ret
                /\ UNCHANGED <<animVars, anim>>
           ELSE IF terminal
           THEN /\ lastState' = p.lastState
                /\ started' = p.started
                /\ cycles' = p.cycles
                /\ anim' = [op |-> "play", n |-> anim.n + 1, arg |-> currentGameState,
                            ret |-> p.ret, lit |-> p.lit,
                            streak |-> IF continues THEN anim.streak + 1 ELSE 1]
                /\ IF p.ret
                   THEN /\ gameBoard' = setupBoard.gameBoard
                        /\ cursor' = setupBoard.cursor
                        /\ currentColor' = setupBoard.currentColor
                        /\ currentGameState' = eOngoingGame
                   ELSE UNCHANGED <<boardVars, currentGameState>>
           ELSE /\ currentGameState' = eOngoingGame
                /\ UNCHANGED <<boardVars, animVars, anim>>
        /\ IF called
           THEN /\ call' = [op |-> "checkBoard", ev |-> b.ret, ret |-> r.ret,
                            placed |-> placed,
                            branches |-> checkBoardBranches(boardState, b.ret)]
                /\ script' = ScriptStep(script, placed)
                /\ priorOngoing' =
                       (call.op = "setup" \/ (priorOngoing /\ call.ret = eOngoingGame))
           ELSE IF done
           THEN call' = NoCall /\ script' = 0 /\ priorOngoing' = TRUE
           ELSE UNCHANGED gameObs
        /\ milis' = TickAdd(milis, spent)
        /\ seg' = sig.seg
        /\ left' = sig.left
        /\ iter' = [op |-> "loop", before |-> currentGameState, ev |-> b.ret,
                    called |-> called, done |-> done, at |-> milis, ticks |-> spent]
        /\ UNCHANGED <<plan, tickStart, probe, ledVars>>

Loop ==
    /\ LoopRunning
    /\ \E b \in {checkButton(buttonStatics, seg <= Len(plan) /\ seg % 2 = 1, milis)} :
       \E called \in {currentGameState = eOngoingGame /\ b.ret # eBtnUndefined} :
       \E r \in {IF called THEN checkBoard(boardState, b.ret)
                  ELSE [bs |-> boardState, ret |-> currentGameState]} :
       \E p \in {playSequence(animStatics, currentGameState)} :
       \E spent \in {(IF currentGameState = eOngoingGame
                        THEN holdTicks(displayBoard(r.bs, milis))
                        ELSE IF currentGameState \in TerminalStates THEN p.ticks ELSE 0)
                          + LOOP_DELAY_MS} :
           LoopBody(seg <= Len(plan) /\ seg % 2 = 1, b, called, r, p, spent)

NextLoop == Loop

SpecLoop == InitLoop /\ [][NextLoop]_vars

\* loop() is called again and again.
SpecLoopFair == SpecLoop /\ WF_vars(NextLoop)

(***************************************************************************)
(* The Charlieplex lines: every register write of the LED driver is a      *)
(* step.  A call of loop(), displayBoard() or playSequence() is unfolded   *)
(* into its register writes, delays and returns; led.ops holds those of    *)
(* the current lightCell call, led.cells and led.left the lightCell calls  *)
(* still to make, led.tail what follows them.  The button pin (DDRB,       *)
(* PORTB) is not an LED line and is left out of regs.                      *)
(***************************************************************************)
\* kLines[line + 1]: the registers and the bit of a line.
kLines ==
    << [ddr |-> "DDRA", port |-> "PORTA", bit |-> 1],
       [ddr |-> "DDRA", port |-> "PORTA", bit |-> 5],
       [ddr |-> "DDRC", port |-> "PORTC", bit |-> 6],
       [ddr |-> "DDRC", port |-> "PORTC", bit |-> 4],
       [ddr |-> "DDRC", port |-> "PORTC", bit |-> 0] >>

\* reg |= bits and reg &= ~bits, executed in function fn.
SetBits(reg, bits, fn) == [op |-> "set", reg |-> reg, bits |-> bits, in |-> fn]
ClrBits(reg, bits, fn) == [op |-> "clr", reg |-> reg, bits |-> bits, in |-> fn]
DelayOp(ms, fn) == [op |-> "delay", ms |-> ms, in |-> fn]
RetOp(fn) == [op |-> "ret", in |-> fn]

\* The steps of a callee seen as part of the caller fn.
Within(fn, ops) == [k \in 1 .. Len(ops) |-> [ops[k] EXCEPT !.in = fn]]

lineHiZ(line) ==
    << ClrBits(kLines[line + 1].port, {kLines[line + 1].bit}, "lineHiZ"),
       ClrBits(kLines[line + 1].ddr, {kLines[line + 1].bit}, "lineHiZ") >>

lineLow(line) ==
    << ClrBits(kLines[line + 1].port, {kLines[line + 1].bit}, "lineLow"),
       SetBits(kLines[line + 1].ddr, {kLines[line + 1].bit}, "lineLow") >>

lineHigh(line) ==
    << SetBits(kLines[line + 1].port, {kLines[line + 1].bit}, "lineHigh"),
       SetBits(kLines[line + 1].ddr, {kLines[line + 1].bit}, "lineHigh") >>

RECURSIVE Concat(_)
Concat(ss) == IF ss = << >> THEN << >> ELSE ss[1] \o Concat(Tail(ss))

\* for (i = 0; i < NUM_LINES; i++) lineHiZ(i)
allHiZ == Within("allHiZ", Concat([k \in 1 .. NUM_LINES |-> lineHiZ(k - 1)]))

\* The loop of descarga: its body writes what lineLow writes.
allLow == Concat([k \in 1 .. NUM_LINES |-> lineLow(k - 1)])

\* Faulty variant of descarga: the source is not released first.
descarga_keepSrc(src, sink) ==
    Within("descarga", allLow \o allHiZ)

descarga(src, sink) ==
    Within("descarga", lineHiZ(src) \o allLow \o allHiZ)

drivePair(src, sink) == Within("drivePair", lineHigh(src) \o lineLow(sink))

\* lightCell(color, idx, led_ms); the hold is the delay between drivePair
\* and descarga.
lightCell(color, idx, led_ms) ==
    LET pair == getPair(color, idx)
    IN  drivePair(pair.src, pair.sink)
            \o << [op |-> "delay", ms |-> led_ms, in |-> "lightCell",
                   color |-> color, idx |-> idx] >>
            \o descarga(pair.src, pair.sink)
            \o << RetOp("lightCell") >>

\* initIO(), the LED lines only.
initIO ==
    Within("initIO",
           << ClrBits("PORTA", {1, 5}, "initIO"), ClrBits("DDRA", {1, 5}, "initIO"),
              ClrBits("PORTC", {6, 4, 0}, "initIO"), ClrBits("DDRC", {6, 4, 0}, "initIO") >>
               \o allHiZ)

\* What displayBoard does after its lightCell calls.
displayBoardTail == Within("displayBoard", allHiZ) \o << RetOp("displayBoard") >>

\* What playSequence does after the lightCell calls of lightMask: the
\* allHiZ of lightMask, its own allHiZ, the dark phase, cycles++ and the
\* test on cycles.
playSequenceTail(done) ==
    Within("lightMask", allHiZ) \o Within("playSequence", allHiZ)
        \o << DelayOp(ANIM_T_OFF, "playSequence"), [op |-> "cycles", in |-> "playSequence"] >>
        \o (IF done THEN Within("playSequence", allHiZ) ELSE << >>)
        \o << RetOp("playSequence") >>

\* setup(): initIO and the reset of the board.
setupOps == initIO \o << [op |-> "setup", in |-> "setup"] >>

loopTail == << DelayOp(LOOP_DELAY_MS, "loop"), RetOp("loop") >>

RECURSIVE maskCells(_)
\* The cells of a mask in index order.
maskCells(mask) ==
    IF mask = {} THEN << >>
    ELSE LET m == CHOOSE x \in mask : \A y \in mask : x <= y
         IN  <<m>> \o maskCells(mask \ {m})

\* The line as the pin sees it: an output driven high or low, or an input
\* with or without the pull-up.
LineMode(r, line) ==
    LET pin == kLines[line + 1]
    IN  IF pin.bit \in r[pin.ddr]
        THEN (IF pin.bit \in r[pin.port] THEN "high" ELSE "low")
        ELSE (IF pin.bit \in r[pin.port] THEN "pullup" ELSE "hiz")

\* Loads the steps of the next lightCell call, or what follows the last one.
Refill(l) ==
    IF l.ops # << >> THEN l
    ELSE IF l.cells # << >>
    THEN [l EXCEPT !.ops = lightCell(l.cells[1][1], l.cells[1][2], l.cells[1][3]),
                   !.cells = Tail(l.cells)]
    ELSE IF l.left > 0
    THEN [l EXCEPT !.ops = lightCell(l.color, l.mask[1], LED_ANIM_MS),
                   !.mask = Tail(l.mask) \o <<l.mask[1]>>,
                   !.left = l.left - 1]
    ELSE [l EXCEPT !.ops = l.tail, !.tail = << >>]

\* The driver at the start of a call with the lightCell calls cs, or the
\* lightMask of n cells of a mask, and what follows them.
StartLed(fn, cs, color, mask, n, tail) ==
    Refill([todo |-> Tail(led.todo), ops |-> << >>, cells |-> cs, color |-> color,
            mask |-> mask, left |-> n, tail |-> tail,
            last |-> [op |-> "call", in |-> fn]])

LedIdle == led.ops = << >>
NextCallIs(fn) == LedIdle /\ led.todo # << >> /\ led.todo[1] = fn

\* displayBoard(&boardState), called on its own.
LinesDisplay ==
    /\ NextCallIs("displayBoard")
    /\ led' = StartLed("displayBoard", displayBoard(boardState, milis), eRedLed, << >>, 0,
                       displayBoardTail)
    /\ UNCHANGED <<boardVars, currentGameState, milis, btnVars, btnEnv, animVars, gameObs,
                   anim, probe, iter, since, regs>>

\* The entry of playSequence(gameState): the statics, the colour, the mask.
PlayStart(fn, gameState, after) ==
    LET fresh == ~started \/ lastState # gameState
        p == playSequence(animStatics, gameState)
        mask == maskCells(IF gameState \in {eRedPlayerWin, eGreenPlayerWin}
                          THEN allMask ELSE xMask)
    IN  /\ started' = TRUE
        /\ lastState' = gameState
        /\ cycles' = IF fresh THEN 0 ELSE cycles
        /\ led' = StartLed(fn, << >>, p.color, mask,
                           lightMaskTicks(ANIM_T_ON) \div LED_ANIM_MS,
                           playSequenceTail(p.ret) \o (IF p.ret THEN after ELSE << >>)
                               \o (IF fn = "loop" THEN loopTail ELSE << >>))

\* playSequence(currentGameState), called on its own at the end of a game.
LinesPlay ==
    /\ NextCallIs("playSequence")
    /\ currentGameState \in TerminalStates
    /\ PlayStart("playSequence", currentGameState, << >>)
    /\ UNCHANGED <<boardVars, currentGameState, milis, btnVars, btnEnv, gameObs, anim,
                   probe, iter, since, regs>>

\* loop() up to its first register write: checkButton, then checkBoard
\* when there is an event and the game is ongoing.  No button signal is
\* scripted here, the button is released.
LinesLoop ==
    /\ NextCallIs("loop")
    /\ \E b \in {checkButton(buttonStatics, FALSE, milis)} :
       \E called \in {currentGameState = eOngoingGame /\ b.ret # eBtnUndefined} :
       \E r \in {IF called THEN checkBoard(boardState, b.ret)
                  ELSE [bs |-> boardState, ret |-> currentGameState]} :
          /\ st' = b.st /\ t0' = b.t0 /\ dur1' = b.dur1 /\ dur2' = b.dur2
          /\ IF currentGameState = eOngoingGame
             THEN /\ gameBoard' = r.bs.gameBoard
                  /\ cursor' = r.bs.cursor
                  /\ currentColor' = r.bs.currentColor
                  /\ currentGameState' = r.ret
                  /\ led' = StartLed("loop", displayBoard(r.bs, milis), eRedLed, << >>, 0,
                                     displayBoardTail \o loopTail)
                  /\ UNCHANGED animVars
             ELSE IF currentGameState \in TerminalStates
             THEN /\ PlayStart("loop", currentGameState, setupOps)
                  /\ UNCHANGED <<boardVars, currentGameState>>
             ELSE /\ currentGameState' = eOngoingGame
                  /\ led' = StartLed("loop", << >>, eRedLed, << >>, 0, loopTail)
                  /\ UNCHANGED <<boardVars, animVars>>
    /\ UNCHANGED <<milis, plan, seg, left, tickStart, evCount, btnCall, gameObs, anim,
                   probe, iter, since, regs>>

\* One register write, delay or return of the current call.
LedStep ==
    /\ ~LedIdle
    /\ \E o \in {led.ops[1]} :
          /\ led' = Refill([led EXCEPT !.ops = Tail(@), !.last = o])
          /\ regs' = IF o.op = "set" THEN [regs EXCEPT ![o.reg] = @ \cup o.bits]
                     ELSE IF o.op = "clr" THEN [regs EXCEPT ![o.reg] = @ \ o.bits]
                     ELSE regs
          /\ milis' = IF o.op = "delay" THEN TickAdd(milis, o.ms) ELSE milis
          /\ IF o.op = "cycles"
             THEN \E p \in {playSequence(animStatics, lastState)} :
                     started' = p.started /\ lastState' = p.lastState /\ cycles' = p.cycles
             ELSE UNCHANGED animVars
          /\ IF o.op = "setup"
             THEN /\ gameBoard' = setupBoard.gameBoard
                  /\ cursor' = setupBoard.cursor
                  /\ currentColor' = setupBoard.currentColor
                  /\ currentGameState' = eOngoingGame
             ELSE UNCHANGED <<boardVars, currentGameState>>
    /\ UNCHANGED <<btnVars, btnEnv, gameObs, anim, probe, iter, since>>

\* The event a gesture of the button stands for.
GestureEvent(g) ==
    IF g = "L" THEN eBtnLongKeyPress
    ELSE IF g = "S" THEN eBtnShortKeyPress
    ELSE IF g = "D" THEN eBtnDoubleKeyPress
    ELSE eBtnUndefined

RECURSIVE PlayGestures(_, _)
\* The board and the game state after the events of the gestures gs, as
\* loop() hands them to checkBoard while the game is ongoing.
PlayGestures(g, gs) ==
    IF gs = << >> \/ g.ret # eOngoingGame THEN g
    ELSE PlayGestures(checkBoard(g.bs, GestureEvent(gs[1])), Tail(gs))

RECURSIVE SumTicks(_)
SumTicks(s) == IF s = << >> THEN 0 ELSE s[1] + SumTicks(Tail(s))

LineLoops == 4
MidGame == <<"L", "L", "L", "S", "L">>
LateGame == <<"L", "L", "L", "D", "L", "L", "L", "L", "L">>
Calls(fn, n) == [k \in 1 .. n |-> fn]

\* The games played before the calls, the tick the calls start at and the
\* calls made.
LineCases ==
    { [game |-> << >>, at |-> 0, todo |-> Calls("loop", LineLoops)],
      [game |-> << >>, at |-> DISP_T_ON,
       todo |-> <<"loop", "displayBoard">> \o Calls("loop", LineLoops)],
      [game |-> MidGame, at |-> SumTicks(GameSignal(MidGame)),
       todo |-> <<"displayBoard">> \o Calls("loop", LineLoops)],
      [game |-> LateGame, at |-> SumTicks(GameSignal(LateGame)),
       todo |-> Calls("loop", LineLoops) \o <<"displayBoard">>],
      [game |-> QuickRedWinGame, at |-> SumTicks(GameSignal(QuickRedWinGame)),
       todo |-> Calls("loop", LineLoops)],
      [game |-> QuickStalemateGame, at |-> SumTicks(GameSignal(QuickStalemateGame)),
       todo |-> Calls("loop", LineLoops)],
      [game |-> GreenWinGame, at |-> SumTicks(GameSignal(GreenWinGame)),
       todo |-> Calls("playSequence", LineLoops) \o <<"displayBoard">>] }

\* All lines hi-Z as initIO leaves them, a board some game has led to and
\* the calls to make.
InitLines ==
    /\ \E c \in LineCases :
       \E g \in {PlayGestures([bs |-> setupBoard, ret |-> eOngoingGame], c.game)} :
          /\ gameBoard = g.bs.gameBoard
          /\ cursor = g.bs.cursor
          /\ currentColor = g.bs.currentColor
          /\ currentGameState = g.ret
          /\ milis = [hi |-> 0, lo |-> c.at]
          /\ led = [IdleLed EXCEPT !.todo = c.todo]
    /\ regs = ClearRegs
    /\ InitButton /\ InitAnim /\ InitGameObs /\ InitNoButtonSignal
    /\ anim = NoAnim /\ probe = NoProbe /\ iter = NoIter /\ since = NoSince

NextLines == LinesLoop \/ LinesDisplay \/ LinesPlay \/ LedStep

SpecLines == InitLines /\ [][NextLines]_vars

(***************************************************************************)
(* Properties of the board and game logic.                                 *)
(***************************************************************************)
FreeCells == {i \in Cells : ~gameBoard[eRedLed][i] /\ ~gameBoard[eGreenLed][i]}
LineOf(c) == \E t \in Triples : \A i \in t : gameBoard[c][i]
WinOf(c) == IF c = eRedLed THEN eRedPlayerWin ELSE eGreenPlayerWin

\* C1: after any sequence of checkBoard calls from setup(), with any button
\* events, no cell is set in both the red and the green grid; so a cell is
\* occupied exactly when it is set in exactly one grid.
C1_NoCellInBothGrids ==
    \A i \in Cells :
        /\ ~(gameBoard[eRedLed][i] /\ gameBoard[eGreenLed][i])
        /\ cellOccupied(boardState, i) <=> (gameBoard[eRedLed][i] # gameBoard[eGreenLed][i])

\* A full board holding both colours, reached by a placing call.
C1_Witness ==
    /\ call.op = "checkBoard" /\ call.placed # {}
    /\ FreeCells = {}
    /\ \E i, j \in Cells : gameBoard[eRedLed][i] /\ gameBoard[eGreenLed][j]

\* C2: moveCursorToNextFree, for every board, cursor and direction, leaves
\* the cursor on the first unoccupied cell met scanning circularly from the
\* cursor's neighbour in that direction, and leaves it unchanged when the
\* board is full.
C2_MoveLandsOnFirstFree ==
    probe.op = "move" =>
        LET at(k) == (probe.from + k * (NUM_LED_PER_COLOR + probe.dir)) % NUM_LED_PER_COLOR
        IN  IF FreeCells = {}
            THEN cursor = probe.from
            ELSE \E k \in 1 .. NUM_LED_PER_COLOR :
                    /\ cursor = at(k)
                    /\ cursor \in FreeCells
                    /\ \A j \in 1 .. (k - 1) : at(j) \notin FreeCells

\* A backward move from cell 1 that wraps around and skips occupied cells.
C2_Witness ==
    /\ probe.op = "move" /\ probe.dir = -1 /\ probe.from = 1
    /\ cursor = 6

\* C3: hasWin(color) is true exactly when one of the 8 lines is fully set
\* in that colour's grid; the other colour's cells do not count.
C3_HasWinIffLine ==
    probe.op = "win" => (probe.result <=> LineOf(probe.color))

\* hasWin(green) is false on a board where red holds a line.
C3_Witness ==
    /\ probe.op = "win" /\ probe.color = eGreenLed /\ ~probe.result
    /\ LineOf(eRedLed)
    /\ \E i \in Cells : gameBoard[eGreenLed][i]

PlacedCell == CHOOSE i \in Cells : i \in call.placed
Mover == CHOOSE c \in Colors : gameBoard[c][PlacedCell]
CompletesLine ==
    /\ call.op = "checkBoard" /\ call.placed # {}
    /\ \E t \in Triples : PlacedCell \in t /\ \A i \in t : gameBoard[Mover][i]

\* C4: the checkBoard call whose placement completes a line of the active
\* colour returns that colour's win, also when it fills the ninth cell, and
\* every earlier call of the game returned ongoing; the placements red 0,
\* green 3, red 1, green 4, red 2 return red-win on the call placing cell 2.
C4_WinningPlacementReturnsWin ==
    /\ CompletesLine =>
          /\ call.ev = eBtnLongKeyPress
          /\ call.ret = WinOf(Mover)
          /\ priorOngoing
    /\ (script # ScriptOff /\ script < Len(ScriptCells)) => currentGameState = eOngoingGame
    /\ script = Len(ScriptCells) =>
          /\ call.ret = eRedPlayerWin
          /\ call.placed = {ScriptCells[Len(ScriptCells)]}
          /\ priorOngoing

\* A placement that fills the ninth cell and completes a line.
C4_Witness == CompletesLine /\ FreeCells = {}

\* The end-to-end scenario has been played to its last placement.
C4_ScriptPlayed == script = Len(ScriptCells)

\* C5: checkBoard returns stalemate exactly on the call that fills the
\* ninth cell with neither colour holding a line; never while a cell is
\* free, and such a ninth placement returns neither ongoing nor a win.
C5_StalemateIffNinthCellNoLine ==
    call.op = "checkBoard" =>
        (call.ret = eStalemate <=>
            /\ call.placed # {}
            /\ FreeCells = {}
            /\ ~LineOf(eRedLed) /\ ~LineOf(eGreenLed))

\* Supporting fact, for any sequence of checkBoard calls (also after the
\* game has ended): stalemate is never returned while a cell is free.
StalemateOnlyOnFullBoard ==
    (call.op = "checkBoard" /\ call.ret = eStalemate) => FreeCells = {}

\* Supporting fact, for any sequence of checkBoard calls: a placement that
\* fills the ninth cell with no line returns stalemate.
NinthPlacementNoLineIsStalemate ==
    (/\ call.op = "checkBoard" /\ call.placed # {}
     /\ FreeCells = {} /\ ~LineOf(eRedLed) /\ ~LineOf(eGreenLed))
        => call.ret = eStalemate

C5_Witness == call.op = "checkBoard" /\ call.ret = eStalemate /\ call.placed # {}


\* The evaluation of the board in the fixed order: red line, green line,
\* no free cell, else ongoing.
BoardOutcome ==
    IF LineOf(eRedLed) THEN eRedPlayerWin
    ELSE IF LineOf(eGreenLed) THEN eGreenPlayerWin
    ELSE IF FreeCells = {} THEN eStalemate
    ELSE eOngoingGame

\* C13: for every board of a game and every button event, also a LongPress
\* that places a piece, the outcome returned by checkBoard is the evaluation
\* of the resulting board in the fixed order red-win, green-win, stalemate,
\* ongoing.
C13_OutcomeIsBoardEvaluation ==
    call.op = "checkBoard" => call.ret = BoardOutcome

\* A placement by green that completes a green line.
C13_Witness ==
    /\ call.op = "checkBoard" /\ call.ev = eBtnLongKeyPress /\ call.placed # {}
    /\ call.ret = eGreenPlayerWin /\ LineOf(eGreenLed)

\* C14: whenever the outcome is ongoing, after setup() and after every
\* checkBoard call, the cursor is in 0..8 and on a cell unoccupied in both
\* grids; the LongPress branch that finds the cursor cell occupied and the
\* cursor self-correction branch are never taken.
C14_CursorOnFreeCell ==
    /\ currentGameState = eOngoingGame => (cursor \in Cells /\ cursor \in FreeCells)
    /\ call.op = "checkBoard" =>
          (~call.branches.longOccupied /\ ~call.branches.selfCorrect)

\* An ongoing game with one free cell left, the cursor on it after a placement.
C14_Witness ==
    /\ currentGameState = eOngoingGame /\ call.op = "checkBoard" /\ call.placed # {}
    /\ FreeCells = {cursor}

\* For any sequence of checkBoard calls, also after the game has ended
\* (when the two defensive branches can be taken): the cursor is on a free
\* cell whenever the outcome is ongoing.
CursorOnFreeCellAnyCall ==
    currentGameState = eOngoingGame => (cursor \in Cells /\ cursor \in FreeCells)

\* For calls made after the game has ended the same holds with one
\* exception: on a full board the cursor check returns stalemate before the
\* lines are examined.
OutcomeIsBoardEvaluationAnyCall ==
    (call.op = "checkBoard" /\ ~(FreeCells = {} /\ call.placed = {}))
        => call.ret = BoardOutcome

(***************************************************************************)
(* Properties of the button gesture FSM, sampled once per tick.            *)
(***************************************************************************)
RunDone == seg > Len(plan)
Events(e) == evCount[e]
OnlyEvent(e) ==
    \A x \in ButtonEvents \ {eBtnUndefined} : Events(x) = (IF x = e THEN 1 ELSE 0)
NoEvent == \A x \in ButtonEvents \ {eBtnUndefined} : Events(x) = 0

\* One press, confirmed by the debounce and shorter than the long-press
\* threshold, then at least IdleTail released ticks.
IsShortPressPlan ==
    Len(plan) = 2 /\ plan[1] > T_DB /\ plan[1] < T_LONG /\ plan[2] >= IdleTail

\* One press held for at least the long-press threshold, then released.
IsLongPressPlan == Len(plan) = 2 /\ plan[1] >= T_LONG /\ plan[2] >= IdleTail

\* Two confirmed presses shorter than the long-press threshold, the second
\* starting inside the double-press window opened by the confirmed release.
IsDoublePressPlan ==
    /\ Len(plan) = 4
    /\ plan[1] > T_DB /\ plan[1] < T_LONG
    /\ plan[3] > T_DB /\ plan[3] < T_LONG
    /\ plan[2] > T_DB /\ plan[2] <= T_DB + T_DBL
    /\ plan[4] >= IdleTail

\* Only pulses shorter than the debounce window.
IsBouncePlan ==
    /\ Len(plan) % 2 = 0
    /\ \A i \in 1 .. Len(plan) : i % 2 = 1 => plan[i] < T_DB

\* C6: a single press longer than the debounce and shorter than the
\* long-press threshold, followed by 600 released ticks, produces exactly
\* one ShortPress, no DoublePress or LongPress, and ends in Idle; no other
\* event is returned at any tick of the run.
C6_ShortPressOnce ==
    IsShortPressPlan =>
        /\ Events(eBtnDoubleKeyPress) = 0 /\ Events(eBtnLongKeyPress) = 0
        /\ Events(eBtnShortKeyPress) <= 1
        /\ RunDone => (OnlyEvent(eBtnShortKeyPress) /\ st = S_IDLE)

\* The 15-tick press has been classified at the end of its run.
C6_Witness ==
    /\ IsShortPressPlan /\ plan[1] = 15 /\ RunDone
    /\ Events(eBtnShortKeyPress) = 1

\* C7: a single press held for at least the 1000-tick long-press threshold
\* and then released produces exactly one LongPress, no ShortPress or
\* DoublePress, and the FSM returns to Idle.
C7_LongPressOnce ==
    IsLongPressPlan =>
        /\ Events(eBtnShortKeyPress) = 0 /\ Events(eBtnDoubleKeyPress) = 0
        /\ RunDone => (OnlyEvent(eBtnLongKeyPress) /\ st = S_IDLE)

\* C8: two confirmed presses, each shorter than the long-press threshold,
\* the second starting within the double-press window, produce exactly one
\* DoublePress, no ShortPress or LongPress, and the FSM returns to Idle.
C8_DoublePressOnce ==
    IsDoublePressPlan =>
        /\ Events(eBtnShortKeyPress) = 0 /\ Events(eBtnLongKeyPress) = 0
        /\ RunDone => (OnlyEvent(eBtnDoubleKeyPress) /\ st = S_IDLE)

\* C9: press pulses shorter than the debounce window produce no event at
\* all, and the FSM is back in Idle at the released sample after each pulse.
C9_BouncesRejected ==
    IsBouncePlan =>
        /\ NoEvent
        /\ (~btnCall.pressed => st = S_IDLE)

\* The tick counter has stayed below 2^16 since the signal started, so every
\* stored time stamp equals the tick it was taken at.
BelowWrap == tickStart.hi = 0 /\ milis.hi = 0

\* Supporting facts: while the tick counter is below 2^16 a hold of at
\* least T_LONG + T_DB ticks is a LongPress, and the double press and the
\* bounce rejection behave as described.
LongPressBelowWrap ==
    (IsLongPressPlan /\ plan[1] >= T_LONG + T_DB /\ BelowWrap) => C7_LongPressOnce
DoublePressBelowWrap == (IsDoublePressPlan /\ BelowWrap) => C8_DoublePressOnce
BouncesRejectedBelowWrap == (IsBouncePlan /\ BelowWrap) => C9_BouncesRejected


\* A press confirmed by the debounce, released for less than the debounce
\* window and pressed again, the whole hold lasting at least T_LONG ticks.
IsBouncedLongPlan ==
    /\ Len(plan) = 4
    /\ plan[1] > T_DB /\ plan[2] < T_DB
    /\ plan[1] + plan[2] + plan[3] >= T_LONG
    /\ plan[4] >= IdleTail

\* A double press whose second press contains such a release.
IsBouncedSecondPlan ==
    /\ Len(plan) = 6
    /\ plan[1] > T_DB /\ plan[1] < T_LONG
    /\ plan[2] > T_DB /\ plan[2] <= T_DB + T_DBL
    /\ plan[3] > T_DB /\ plan[4] < T_DB
    /\ plan[6] >= IdleTail

\* C15: a release shorter than the debounce window in the middle of a held
\* press does not change its classification: a press held for at least 1000
\* ticks in total yields exactly one LongPress and nothing else, and the
\* second press of a double press yields the event of the uninterrupted
\* press (LongPress from 1000 ticks, else DoublePress).  Stated for the runs
\* in which the tick counter stays below 2^16, where every stored time stamp
\* is exact.
C15_BounceKeepsClassification ==
    BelowWrap =>
        /\ IsBouncedLongPlan =>
              /\ Events(eBtnShortKeyPress) = 0 /\ Events(eBtnDoubleKeyPress) = 0
              /\ RunDone => (OnlyEvent(eBtnLongKeyPress) /\ st = S_IDLE)
        /\ IsBouncedSecondPlan =>
              /\ Events(eBtnShortKeyPress) = 0
              /\ RunDone =>
                    /\ st = S_IDLE
                    /\ OnlyEvent(IF plan[3] + plan[4] + plan[5] >= T_LONG
                                 THEN eBtnLongKeyPress ELSE eBtnDoubleKeyPress)

\* What the code does while the tick counter is below 2^16: the hold is
\* measured from the last such release, so the press is a LongPress exactly
\* when the part from that release on lasts at least T_LONG ticks.
BouncedPressMeasuredFromBounce ==
    (BelowWrap /\ RunDone) =>
        /\ IsBouncedLongPlan =>
              OnlyEvent(IF plan[2] + plan[3] >= T_LONG
                        THEN eBtnLongKeyPress ELSE eBtnShortKeyPress)
        /\ IsBouncedSecondPlan =>
              OnlyEvent(IF plan[4] + plan[5] >= T_LONG
                        THEN eBtnLongKeyPress ELSE eBtnDoubleKeyPress)

\* C16: the timing windows of the button FSM hold at every value of the
\* 32-bit tick counter, also above 65535: a press is never confirmed before
\* 10 ticks have elapsed since the press edge, ShortPress is never returned
\* before 500 ticks have elapsed since the double-press window opened, and
\* the first pressed reading within 500 ticks of the opening takes the FSM
\* to DebouncePress2.
C16_WindowsAtEveryTick ==
    /\ (btnCall.from = S_DEB_PRESS /\ st = S_PRESSED) => btnCall.edge >= T_DB
    /\ btnCall.ret = eBtnShortKeyPress => btnCall.open >= T_DBL
    /\ (btnCall.waiting /\ btnCall.pressed /\ btnCall.open < T_DBL) => st = S_DEB_PRESS2

\* The same while the tick counter has stayed below 2^16.
WindowsBelowWrap == BelowWrap => C16_WindowsAtEveryTick

(***************************************************************************)
(* Properties of the animation FSM.                                        *)
(***************************************************************************)
\* C10: with the same terminal outcome on consecutive invocations,
\* playSequence returns false on the first and second and true on the third;
\* on returning true the started flag and the cycle counter are reset, so
\* every later sequence again takes exactly 3 invocations; the cycle counter
\* is in 0..2 between invocations.
C10_ThreeInvocationsPerSequence ==
    /\ cycles \in 0 .. 2
    /\ anim.op = "play" =>
          /\ anim.streak \in 1 .. 3
          /\ anim.ret <=> (anim.streak = 3)
          /\ anim.ret => (~started /\ cycles = 0)
          /\ ~anim.ret => (started /\ cycles = anim.streak /\ lastState = anim.arg)

\* A second sequence has completed on the sixth invocation.
C10_Witness ==
    /\ anim.op = "play" /\ anim.ret /\ anim.streak = 3
    /\ anim.n = 6

\* The LEDs that conduct when line src is driven high and line sink low.
LedsDrivenBy(src, sink) ==
    {l \in Colors \X Cells : getPair(l[1], l[2]) = [src |-> src, sink |-> sink]}

\* The LEDs lit through the line pairs driven during the last playSequence call.
AnimLedsLit ==
    UNION {LedsDrivenBy(getPair(l[1], l[2]).src, getPair(l[1], l[2]).sink) : l \in anim.lit}

\* C11: an invocation of playSequence with a colour win lights exactly the 9
\* cells of the winning colour, on each of the 3 cycles; with a stalemate it
\* lights exactly cells 0, 2, 4, 6, 8, in red on the first cycle, green on
\* the second and red on the third; no other LED is lit.
C11_AnimationLights ==
    anim.op = "play" =>
        /\ anim.arg = eRedPlayerWin => AnimLedsLit = {eRedLed} \X Cells
        /\ anim.arg = eGreenPlayerWin => AnimLedsLit = {eGreenLed} \X Cells
        /\ anim.arg = eStalemate =>
              AnimLedsLit = {IF anim.streak = 2 THEN eGreenLed ELSE eRedLed} \X {0, 2, 4, 6, 8}

\* The second cycle of a stalemate sequence, lit in green.
C11_Witness ==
    /\ anim.op = "play" /\ anim.arg = eStalemate /\ anim.streak = 2
    /\ <<eGreenLed, 4>> \in anim.lit


(***************************************************************************)
(* Properties of the main loop.                                            *)
(***************************************************************************)
FreshGame ==
    /\ gameBoard = EmptyGrid /\ cursor = 0 /\ currentColor = eRedLed
    /\ currentGameState = eOngoingGame

\* An iteration entered with a terminal outcome.
TerminalIteration ==
    currentGameState \in TerminalStates =>
        /\ ~iter'.called
        /\ anim'.arg = currentGameState
        /\ iter'.done <=> (anim'.streak = 3)
        /\ IF iter'.done
           THEN FreshGame' /\ call' = NoCall
           ELSE UNCHANGED <<boardVars, currentGameState, call>>

\* C12: in an iteration of the main loop entered with a terminal outcome
\* checkBoard is not invoked and, unless playSequence reports completion,
\* the board and the outcome are left as they are; playSequence reports
\* completion in the third such iteration, which leaves the board empty, the
\* cursor at 0, red active and the outcome ongoing; and every terminal
\* outcome is eventually followed by this reset.
C12_TerminalUntilAnimationDone ==
    /\ [][TerminalIteration]_vars
    /\ (currentGameState \in TerminalStates) ~> FreshGame

\* The reset that follows the animation of a stalemate.
C12_Witness ==
    /\ iter.op = "loop" /\ iter.done /\ iter.before = eStalemate
    /\ FreshGame

\* The blink phase of the cursor at the tick the last iteration was entered.
BlinkOn == TickMod(iter.at, DISP_T_ON + DISP_T_OFF) < DISP_T_ON

\* C17 as stated: the tick counter advances by exactly 1 between two
\* consecutive checkButton invocations of the main loop, whatever the board,
\* the blink phase and the outcome.
C17_UnitCadence == iter.op = "loop" => iter.ticks = 1

\* C17 as amended: between two consecutive checkButton invocations the tick
\* counter advances by 1 plus the LED holds of the iteration: 3 per occupied
\* cell and 1 for the cursor when its cell is free and the blink phase is on
\* while the game is displayed (1 to 28 ticks), and the 1000-tick hold and
\* 500-tick pause of an animation cycle (1501 ticks) when a terminal outcome
\* is animated.
C17_CadenceIsHoldsPlusOne ==
    iter.op = "loop" =>
        /\ iter.ticks = milis.lo - iter.at.lo \/ iter.ticks = milis.lo - iter.at.lo + W16
        /\ iter.before = eOngoingGame =>
              /\ iter.ticks = 1 + 3 * Cardinality(Cells \ FreeCells)
                                + (IF BlinkOn /\ cursor \in FreeCells THEN 1 ELSE 0)
              /\ iter.ticks \in 1 .. 28
        /\ iter.before \in TerminalStates => iter.ticks = 1501

\* An iteration that displays 8 occupied cells and the lit cursor.
C17_Witness ==
    /\ iter.op = "loop" /\ iter.before = eOngoingGame /\ iter.ticks = 26
    /\ currentGameState = eOngoingGame

\* An iteration of exactly one tick: empty board, blink phase off.
UnitCadenceIteration == iter.op = "loop" /\ iter.ticks = 1


ReleasedFrom(s) == ~btnCall.pressed /\ btnCall.quiet = 0 /\ btnCall.from = s
ReleasedFromDebouncePress == ReleasedFrom(S_DEB_PRESS)
ReleasedFromPressed == ReleasedFrom(S_PRESSED)
ReleasedFromDebouncePress2 == ReleasedFrom(S_DEB_PRESS2)
ReleasedFromPressed2 == ReleasedFrom(S_PRESSED2)

(***************************************************************************)
(* The frame of the checkBoard calls that place nothing.                   *)
(***************************************************************************)
\* A step of the game that is a checkBoard call on an ongoing board keeps
\* the frame of its event.
FrameStep ==
    (currentGameState = eOngoingGame /\ call'.op = "checkBoard") =>
        /\ call'.ev \in {eBtnShortKeyPress, eBtnDoubleKeyPress} =>
               /\ gameBoard' = gameBoard
               /\ currentColor' = currentColor
               /\ currentGameState' = eOngoingGame
        /\ call'.ev = eBtnUndefined =>
               /\ boardVars' = boardVars
               /\ currentGameState' = eOngoingGame

\* C19: on a reachable ongoing board a checkBoard call with ShortPress or
\* DoublePress leaves both grids and the active colour unchanged and
\* returns ongoing, changing at most the cursor; a call with Undefined
\* leaves grids, cursor and active colour unchanged and returns ongoing.
C19_FrameOfMoves == [][FrameStep]_vars

\* A DoublePress has just been answered on a board with placements: the
\* cursor went back from cell 1 over the occupied cell 0 to cell 8.
C19_Witness ==
    /\ call.op = "checkBoard" /\ call.ev = eBtnDoubleKeyPress
    /\ call.ret = eOngoingGame /\ currentGameState = eOngoingGame
    /\ gameBoard[eRedLed][0] /\ cursor = 8 /\ currentColor = eGreenLed
    /\ call.placed = {}

\* An Undefined event has just been answered on a board with placements.
UndefinedAnswered ==
    /\ call.op = "checkBoard" /\ call.ev = eBtnUndefined
    /\ currentGameState = eOngoingGame /\ gameBoard[eGreenLed][1]

(***************************************************************************)
(* The alternation of the players.                                         *)
(***************************************************************************)
CellsOf(c) == {i \in Cells : gameBoard[c][i]}
CountOf(c) == Cardinality(CellsOf(c))

\* Red has placed as many pieces as green, or one more; while the game is
\* ongoing it is red's turn exactly when the counts are equal.
CountsAlternate ==
    /\ CountOf(eRedLed) - CountOf(eGreenLed) \in {0, 1}
    /\ currentGameState = eOngoingGame =>
           (currentColor = eRedLed <=> CountOf(eRedLed) = CountOf(eGreenLed))

\* A checkBoard call changes the active colour exactly when it is a
\* LongPress that places a piece and leaves the game ongoing; the piece is
\* of the colour that was active.
AlternationStep ==
    call'.op = "checkBoard" =>
        /\ currentColor' # currentColor <=>
               (/\ call'.ev = eBtnLongKeyPress
                /\ call'.placed # {}
                /\ currentGameState' = eOngoingGame)
        /\ \A i \in call'.placed : gameBoard'[currentColor][i]

\* C21: in every state reached from setup() through the checkBoard calls
\* of the game, the red count minus the green count is 0 or 1; while the
\* outcome is ongoing the active colour is red exactly when the counts are
\* equal; and a checkBoard call changes the active colour only when it is
\* a LongPress placement that leaves the game ongoing.
C21_PlayersAlternate == [](CountsAlternate) /\ [][AlternationStep]_vars

\* Green has just placed its second piece and the turn is red's again.
C21_Witness ==
    /\ call.op = "checkBoard" /\ call.ev = eBtnLongKeyPress /\ call.placed # {}
    /\ \A i \in call.placed : gameBoard[eGreenLed][i]
    /\ currentGameState = eOngoingGame /\ currentColor = eRedLed
    /\ CountOf(eRedLed) = 2 /\ CountOf(eGreenLed) = 2

\* A game won by red with one piece more than green: the active colour
\* stays red.
RedWinsOneAhead ==
    /\ currentGameState = eRedPlayerWin /\ currentColor = eRedLed
    /\ CountOf(eRedLed) = CountOf(eGreenLed) + 1

(***************************************************************************)
(* Properties of the Charlieplex lines.                                    *)
(***************************************************************************)
AllLinesHiZ == \A i \in Lines : LineMode(regs, i) = "hiz"

\* The last step was the hold of a lightCell call: the tick counter
\* advanced while the LED was driven.
LedHold == led.last.op = "delay" /\ led.last.in = "lightCell"

\* The anode and the cathode of an LED in the wiring table: the green LED
\* of a cell is wired against its red one.
Anode(color, idx) == kRedPairs[idx + 1][IF color = eRedLed THEN 1 ELSE 2]
Cathode(color, idx) == kRedPairs[idx + 1][IF color = eRedLed THEN 2 ELSE 1]

\* C18: when the tick counter advances during the hold of lightCell, the
\* source of the LED is the one line driven high, its sink the one line
\* driven low and the other three are hi-Z; when it advances outside
\* lightCell, and when lightCell, displayBoard or playSequence returns, all
\* five lines are hi-Z; during the discharge no line is driven high while
\* another is driven low.
C18_LineStates ==
    /\ LedHold =>
           \A i \in Lines :
               LineMode(regs, i) =
                   IF i = Anode(led.last.color, led.last.idx) THEN "high"
                   ELSE IF i = Cathode(led.last.color, led.last.idx) THEN "low"
                   ELSE "hiz"
    /\ (led.last.op = "delay" /\ led.last.in # "lightCell") => AllLinesHiZ
    /\ (led.last.op = "ret" /\ led.last.in \in {"lightCell", "displayBoard", "playSequence"})
           => AllLinesHiZ
    /\ led.last.in = "descarga" =>
           ~(\E i, j \in Lines : LineMode(regs, i) = "high" /\ LineMode(regs, j) = "low")

\* The hold of the green centre LED in the second cycle of the stalemate
\* animation, run by loop().
C18_Witness ==
    /\ LedHold
    /\ led.last.color = eGreenLed /\ led.last.idx = 4
    /\ currentGameState = eStalemate /\ cycles = 1
    /\ LineMode(regs, Anode(eGreenLed, 4)) = "high"

\* A discharge in progress: all five lines are driven low.
LinesDraining ==
    led.last.in = "descarga" /\ \A i \in Lines : LineMode(regs, i) = "low"

=============================================================================
